---- MODULE Spec2Model ----
(***************************************************************************)
(* A model of uncertainpy's RunModel (src/uncertainpy/core/run_model.py):  *)
(* run -> evaluate_nodes (create_model_parameters, the worker pool's imap) *)
(* -> results_to_data (is_regular, the collection loop,                    *)
(* apply_interpolation).                                                   *)
(*                                                                         *)
(* Arrays are modelled by what the code reads of them: their kind (the     *)
(* np.nan object, None, a number, an array, a ragged array), np.ndim, the  *)
(* size of the outermost dimension, and an id that says which array it is. *)
(***************************************************************************)
EXTENDS Integers, Sequences, FiniteSets, TLC

\* ------------------------------------------------------------------ bounds
MaxEvals == 2   \* evaluations (node matrix columns) in a Results List
MaxLen == 2     \* points in a time/values array
MaxCPUs == 2    \* worker processes of the pool
MaxParams == 2  \* rows of the node matrix

\* ------------------------------------------------------------- vocabulary
ModelName == "model"
FeatureName == "feature"

NoId == [eval |-> 0, name |-> "", part |-> ""]
Nan == [kind |-> "nan", nd |-> 0, n |-> 0, id |-> NoId]
None == [kind |-> "none", nd |-> 0, n |-> 0, id |-> NoId]
Absent == [kind |-> "absent", nd |-> 0, n |-> 0, id |-> NoId]

Arr(kind, nd, n, id) == [kind |-> kind, nd |-> nd, n |-> n, id |-> id]

\* The shapes an envelope is drawn from: <<values, time>>, each <<kind, ndim, n>>.
NanS == <<"nan", 0, 0>>
NoneS == <<"none", 0, 0>>
NumS == <<"num", 0, 0>>
ArrS(nd, n) == <<"array", nd, n>>
RaggedS == <<"ragged", 1, 2>>

Mk(s, id) == IF s[1] \in {"nan", "none"}
             THEN [kind |-> s[1], nd |-> 0, n |-> 0, id |-> NoId]
             ELSE Arr(s[1], s[2], s[3], id)

\* What Parallel builds for one model/feature output: the interpolation is there
\* only for an output declared adaptive whose values are 1-D.
Envelope(vs, ts, ad, k, name) ==
    [values |-> Mk(vs, [eval |-> k, name |-> name, part |-> "values"]),
     time |-> Mk(ts, [eval |-> k, name |-> name, part |-> "time"]),
     interpolation |-> IF ad /\ vs[1] = "array" /\ vs[2] = 1
                       THEN Arr("interp", 0, 0, [eval |-> k, name |-> name, part |-> "values"])
                       ELSE Absent]

\* The array lengths drawn: the shortest and the longest.
Lens == {1, MaxLen}

\* The model's output: 1-D values with their time, or the invalid marker.
ModelShapes ==
    {<<ArrS(1, L), ArrS(1, L)>> : L \in Lens} \cup {<<NanS, NanS>>}

\* A feature's output: 1-D values with their time, with no time (np.nan) or with
\* a ragged time; an invalid marker (np.nan or None); a number; 2-D values.
FeatureShapes ==
    {<<ArrS(1, L), ArrS(1, L)>> : L \in Lens}
    \cup {<<ArrS(1, 1), NanS>>, <<ArrS(1, 1), RaggedS>>, <<NanS, NanS>>,
          <<NoneS, NanS>>, <<NumS, NanS>>, <<ArrS(2, 1), ArrS(1, 1)>>}

VARIABLES
    results,            \* the Results List: a sequence of name -> envelope
    keys,               \* the key order of results[0]
    adaptive,           \* model.adaptive
    ignore,             \* model.ignore
    featuresAdaptive,   \* features.adaptive
    data,               \* the Data object under construction
    pc,                 \* where the call is
    fi,                 \* the storing loop's position in keys
    ri,                 \* the collection loop's position in results
    time_interpolate,   \* results_to_data's local list
    interpolations,     \* results_to_data's local list
    error,              \* the exception raised, if any
    call,               \* the method called: "run" or "results_to_data"
    nodes,              \* run's nodes
    uncertain_parameters, \* run's uncertain_parameters
    suppress_graphics,  \* model.suppress_graphics
    prerequisites,      \* whether xvfbwrapper could be imported
    CPUs,               \* self.CPUs
    display,            \* the virtual display: "none", "started", "stopped"
    pool,               \* the worker pool: "none", "open", "closed"
    model_parameters,   \* evaluate_nodes' list of parameter sets
    task,               \* the pool's tasks: "queued", "running", "done", "failed"
    attempts,           \* how many times each task was started
    completed           \* the tasks in the order the workers ended them

dataVars == <<data, fi, ri, time_interpolate, interpolations>>
configVars == <<keys, adaptive, ignore, featuresAdaptive>>
inputVars == <<call, nodes, uncertain_parameters, suppress_graphics, prerequisites, CPUs>>
poolVars == <<display, pool, model_parameters, task, attempts, completed>>

vars == <<results, keys, adaptive, ignore, featuresAdaptive, data, pc, fi, ri,
          time_interpolate, interpolations, error, call, nodes, uncertain_parameters,
          suppress_graphics, prerequisites, CPUs, display, pool, model_parameters,
          task, attempts, completed>>

NoError == [kind |-> "none", feature |-> "", eval |-> 0, msg |-> ""]
Raise(kind, feature, k, msg) == [kind |-> kind, feature |-> feature, eval |-> k, msg |-> msg]

Range(s) == {s[i] : i \in 1..Len(s)}

\* ------------------------------------------------------------- is_regular
\* utils.utility.lengths: the size of the outermost dimension, 1 for a scalar.
lengths(values) == IF values.nd = 0 THEN 1 ELSE values.n

\* Line 500: the test of is_regular's first loop.
IsValidValues(values) == values.kind # "nan" /\ values.kind # "none"

\* Line 507: the test of is_regular's second loop, as written.
SecondLoopTest(values) == values.kind # "nan" \/ values.kind # "none"

\* Lines 497-502: the value of i when the first loop ends: the position of the
\* first valid values, or the length of the list when there are none.
RECURSIVE FirstLoop(_, _, _)
FirstLoop(rs, feature, i) ==
    IF i > Len(rs) THEN Len(rs)
    ELSE IF IsValidValues(rs[i][feature].values) THEN i
    ELSE FirstLoop(rs, feature, i + 1)

\* Lines 504-513: the second loop, over results[i:].
RECURSIVE SecondLoop(_, _, _, _)
SecondLoop(rs, feature, values_prev, k) ==
    IF k > Len(rs) THEN TRUE
    ELSE LET values == rs[k][feature].values
         IN IF SecondLoopTest(values)
            THEN IF lengths(values_prev) # lengths(values) THEN FALSE
                 ELSE SecondLoop(rs, feature, values, k + 1)
            ELSE SecondLoop(rs, feature, values_prev, k + 1)

is_regular(rs, feature) ==
    LET i == FirstLoop(rs, feature, 1)
    IN IF i >= Len(rs) THEN TRUE
       ELSE SecondLoop(rs, feature, rs[i][feature].values, i + 1)

\* ---------------------------------------------------- apply_interpolation
\* The last position of the greatest element.
RECURSIVE ArgMaxLastFrom(_, _, _)
ArgMaxLastFrom(s, best, k) ==
    IF k > Len(s) THEN best
    ELSE ArgMaxLastFrom(s, IF s[k] >= s[best] THEN k ELSE best, k + 1)

argmaxLast(s) == ArgMaxLastFrom(s, 1, 2)

\* np.argmax: the first position of the greatest element.
RECURSIVE ArgMaxFrom(_, _, _)
ArgMaxFrom(s, best, k) ==
    IF k > Len(s) THEN best
    ELSE ArgMaxFrom(s, IF s[k] > s[best] THEN k ELSE best, k + 1)

argmax(s) == ArgMaxFrom(s, 1, 2)

\* inter(time): a scipy interpolation object evaluated at the points of time
\* gives one value per point.
Evaluate(inter, time) ==
    Arr("array", 1, time.n, [interp |-> inter.id, at |-> time.id])

apply_interpolation(times, inters) ==
    LET time_lengths == [k \in 1..Len(times) |-> times[k].n]
        index_max_len == argmax(time_lengths)
        time == times[index_max_len]
    IN [time |-> time,
        interpolated_results |->
            [kind |-> "ndarray",
             items |-> [k \in 1..Len(inters) |-> Evaluate(inters[k], time)]]]

\* --------------------------------------------------------- results_to_data
ModelLabels == <<"time", "value">>
FeaturesLabels == [f \in {FeatureName} |-> <<"time", "feature value">>]

Unset == [kind |-> "unset"]
List(items) == [kind |-> "list", items |-> items]
NoData == [made |-> FALSE, model_name |-> "", feat |-> <<>>,
           uncertain_parameters |-> <<>>]

\* Lines 214-220: data.add_features(feature) and the labels.
NewFeature(feature) ==
    [labels |-> IF feature = ModelName THEN ModelLabels
                ELSE IF feature \in DOMAIN FeaturesLabels THEN FeaturesLabels[feature]
                ELSE <<>>,
     time |-> Unset,
     evaluations |-> Unset]

\* A check loop that leaves the model's output out.
NeedsRegularityCheckOfFeatures(feature) ==
    feature # ModelName /\ feature \notin featuresAdaptive

\* Lines 229-230: the features whose regularity is checked.
NeedsRegularityCheck(feature) ==
    \/ feature = ModelName /\ ~(ignore \/ adaptive)
    \/ feature # ModelName /\ feature \notin featuresAdaptive

\* Lines 228-233: the position in keys of the first feature the check loop
\* raises for, 0 when it raises for none.
RECURSIVE CheckLoop(_)
CheckLoop(i) ==
    IF i > Len(keys) THEN 0
    ELSE IF NeedsRegularityCheck(keys[i]) /\ ~is_regular(results, keys[i]) THEN i
    ELSE CheckLoop(i + 1)

\* An interpolation branch taken by an adaptive model whatever ignore is.
TakesInterpolationBranchIgnored(feature) ==
    \/ feature \in featuresAdaptive
    \/ feature = ModelName /\ adaptive

\* Lines 239-240: the features that take the interpolation branch.
TakesInterpolationBranch(feature) ==
    \/ feature \in featuresAdaptive
    \/ feature = ModelName /\ adaptive /\ ~ignore

\* np.all(np.isnan(time)): "nan" when time holds only np.nan, "valid" when it
\* holds a number, "raises" (TypeError or ValueError) when time is ragged or None.
TimeTest(time) ==
    CASE time.kind = "nan" -> "nan"
      [] time.kind \in {"ragged", "none"} -> "raises"
      [] OTHER -> "valid"

\* A collection that takes the model's time for the model's output only.
collectNoFallback(times, inters, result, feature) ==
    LET own == result[feature].time
        t1 == TimeTest(own)
        times1 == IF t1 = "valid" THEN Append(times, own) ELSE times
        fallback == feature = ModelName
        mtime == result[ModelName].time
        t2 == TimeTest(mtime)
        times2 == IF fallback /\ t2 = "valid" THEN Append(times1, mtime) ELSE times1
        time_exists == t1 = "valid" \/ (fallback /\ t2 = "valid")
        inter == result[feature].interpolation
    IN  IF t1 = "raises"
        THEN [times |-> times, inters |-> inters, raised |-> "TypeError", msg |-> ""]
        ELSE IF fallback /\ t2 = "raises"
        THEN [times |-> times1, inters |-> inters, raised |-> "TypeError", msg |-> ""]
        ELSE IF ~time_exists
        THEN [times |-> times2, inters |-> inters, raised |-> "ValueError", msg |-> ""]
        ELSE IF inter.kind = "absent"
        THEN [times |-> times2, inters |-> inters, raised |-> "KeyError", msg |-> ""]
        ELSE [times |-> times2, inters |-> Append(inters, inter), raised |-> "none",
              msg |-> ""]

\* A collection that takes the model's time when the test of the feature's own
\* time raises.
collectFallingBack(times, inters, result, feature) ==
    LET own == result[feature].time
        t1 == TimeTest(own)
        times1 == IF t1 = "valid" THEN Append(times, own) ELSE times
        fallback == feature = ModelName \/ t1 # "valid"
        mtime == result[ModelName].time
        t2 == TimeTest(mtime)
        times2 == IF fallback /\ t2 = "valid" THEN Append(times1, mtime) ELSE times1
        time_exists == t1 = "valid" \/ (fallback /\ t2 = "valid")
        inter == result[feature].interpolation
    IN  IF fallback /\ t2 = "raises"
        THEN [times |-> times1, inters |-> inters, raised |-> "TypeError",
              msg |-> "No valid time for {feature}, attempted to use the time of {model}."]
        ELSE IF ~time_exists
        THEN [times |-> times2, inters |-> inters, raised |-> "ValueError",
              msg |-> "Neither feature or model has valid time values to use in the interpolation"]
        ELSE IF inter.kind = "absent"
        THEN [times |-> times2, inters |-> inters, raised |-> "KeyError",
              msg |-> "interpolation"]
        ELSE [times |-> times2, inters |-> Append(inters, inter), raised |-> "none",
              msg |-> ""]

\* Lines 257-295: one pass of the collection loop, for one result.
collect(times, inters, result, feature) ==
    LET own == result[feature].time
        t1 == TimeTest(own)
        times1 == IF t1 = "valid" THEN Append(times, own) ELSE times
        fallback == feature = ModelName \/ t1 # "valid"
        mtime == result[ModelName].time
        t2 == TimeTest(mtime)
        times2 == IF fallback /\ t2 = "valid" THEN Append(times1, mtime) ELSE times1
        time_exists == t1 = "valid" \/ (fallback /\ t2 = "valid")
        inter == result[feature].interpolation
    IN  IF t1 = "raises"
        THEN [times |-> times, inters |-> inters, raised |-> "TypeError",
              msg |-> "the time of is most likely not regular, unable to interpolate"]
        ELSE IF fallback /\ t2 = "raises"
        THEN [times |-> times1, inters |-> inters, raised |-> "TypeError",
              msg |-> "No valid time for {feature}, attempted to use the time of {model}."]
        ELSE IF ~time_exists
        THEN [times |-> times2, inters |-> inters, raised |-> "ValueError",
              msg |-> IF feature = ModelName
                      THEN "model has no valid time values to use in the interpolation"
                      ELSE "Neither feature or model has valid time values to use in the interpolation"]
        ELSE IF inter.kind = "absent"
        THEN [times |-> times2, inters |-> inters, raised |-> "KeyError",
              msg |-> "interpolation"]
        ELSE [times |-> times2, inters |-> Append(inters, inter), raised |-> "none",
              msg |-> ""]

\* The values taken from the last result to the first.
ValuesOfReversed(feature) ==
    [k \in 1..Len(results) |-> results[Len(results) + 1 - k][feature].values]

ValuesOf(feature) == [k \in 1..Len(results) |-> results[k][feature].values]
TimesOf(feature) == [k \in 1..Len(results) |-> results[k][feature].time]

\* Lines 211-233: the Data object, its features and labels, and the check loop.
AddFeaturesAndCheck ==
    /\ pc = "r2d"
    /\ IF Len(results) = 0
       THEN /\ pc' = "raised"
            /\ error' = Raise("IndexError", "", 0, "list index out of range")
            /\ UNCHANGED data
       ELSE /\ data' = [made |-> TRUE, model_name |-> ModelName,
                        feat |-> [f \in Range(keys) |-> NewFeature(f)],
                        uncertain_parameters |-> <<>>]
            /\ LET bad == CheckLoop(1)
               IN IF bad = 0
                  THEN pc' = "store" /\ UNCHANGED error
                  ELSE /\ pc' = "raised"
                       /\ error' = Raise("ValueError", keys[bad], 0,
                                         "The number of points varies between evaluations.")
    /\ fi' = 1
    /\ UNCHANGED <<results, configVars, ri, time_interpolate, interpolations,
                   inputVars, poolVars>>

\* Lines 237-326, one feature of the storing loop; a 1-D adaptive feature starts
\* its collection loop (lines 248-249).
StoreFeature ==
    /\ pc = "store"
    /\ fi <= Len(keys)
    /\ LET feature == keys[fi]
           nd == results[1][feature].values.nd
       IN IF TakesInterpolationBranch(feature)
          THEN CASE nd >= 2 ->
                      /\ pc' = "raised"
                      /\ error' = Raise("NotImplementedError", feature, 0,
                                        "no support for >= 2D interpolation")
                      /\ UNCHANGED <<data, fi, ri, time_interpolate, interpolations>>
                 [] nd = 1 ->
                      /\ pc' = "collect"
                      /\ ri' = 1
                      /\ time_interpolate' = <<>>
                      /\ interpolations' = <<>>
                      /\ UNCHANGED <<data, fi, error>>
                 [] OTHER ->
                      /\ data' = [data EXCEPT
                                    !.feat[feature].time = results[1][feature].time,
                                    !.feat[feature].evaluations = List(ValuesOf(feature))]
                      /\ fi' = fi + 1
                      /\ UNCHANGED <<pc, ri, time_interpolate, interpolations, error>>
          ELSE IF feature = ModelName /\ ignore
          THEN /\ data' = [data EXCEPT
                             !.feat[feature].time = List(TimesOf(feature)),
                             !.feat[feature].evaluations = List(ValuesOf(feature))]
               /\ fi' = fi + 1
               /\ UNCHANGED <<pc, ri, time_interpolate, interpolations, error>>
          ELSE /\ data' = [data EXCEPT
                             !.feat[feature].time = results[1][feature].time,
                             !.feat[feature].evaluations = List(ValuesOf(feature))]
               /\ fi' = fi + 1
               /\ UNCHANGED <<pc, ri, time_interpolate, interpolations, error>>
    /\ UNCHANGED <<results, configVars, inputVars, poolVars>>

\* A collection loop that takes the interpolation out of the result.
CollectResultPopping ==
    /\ pc = "collect"
    /\ ri <= Len(results)
    /\ LET c == collect(time_interpolate, interpolations, results[ri], keys[fi])
       IN /\ time_interpolate' = c.times
          /\ interpolations' = c.inters
          /\ IF c.raised = "none"
             THEN /\ ri' = ri + 1
                  /\ results' = [results EXCEPT ![ri][keys[fi]].interpolation = Absent]
                  /\ UNCHANGED <<pc, error>>
             ELSE /\ pc' = "raised"
                  /\ error' = Raise(c.raised, keys[fi], ri, c.msg)
                  /\ UNCHANGED <<ri, results>>
    /\ UNCHANGED <<configVars, data, fi, inputVars, poolVars>>

\* Lines 251-295: the collection loop's body for results[ri].
CollectResult ==
    /\ pc = "collect"
    /\ ri <= Len(results)
    /\ LET c == collect(time_interpolate, interpolations, results[ri], keys[fi])
       IN /\ time_interpolate' = c.times
          /\ interpolations' = c.inters
          /\ IF c.raised = "none"
             THEN ri' = ri + 1 /\ UNCHANGED <<pc, error>>
             ELSE /\ pc' = "raised"
                  /\ error' = Raise(c.raised, keys[fi], ri, c.msg)
                  /\ UNCHANGED ri
    /\ UNCHANGED <<results, configVars, data, fi, inputVars, poolVars>>

\* Line 297: the collection loop has ended.
Interpolate ==
    /\ pc = "collect"
    /\ ri > Len(results)
    /\ LET r == apply_interpolation(time_interpolate, interpolations)
       IN data' = [data EXCEPT !.feat[keys[fi]].time = r.time,
                               !.feat[keys[fi]].evaluations = r.interpolated_results]
    /\ pc' = "store"
    /\ fi' = fi + 1
    /\ UNCHANGED <<results, configVars, ri, time_interpolate, interpolations, error,
                   inputVars, poolVars>>

\* Line 337.
ReturnData ==
    /\ pc = "store"
    /\ fi > Len(keys)
    /\ pc' = "returned"
    /\ UNCHANGED <<results, configVars, dataVars, error, inputVars, poolVars>>

\* ------------------------------------------------- create_model_parameters
\* self.parameters: the declared parameters with their nominal values.
Parameters == <<[name |-> "a", value |-> 0], [name |-> "b", value |-> 0],
                [name |-> "c", value |-> 5]>>

\* len(nodes.T): the number of columns.
NumColumns(ns) == IF ns.ndim = 1 THEN Len(ns.a) ELSE Len(ns.a[1])

\* Lines 438-440: column i of nodes.T; a 0-dimensional node becomes [node].
Node(ns, i) ==
    IF ns.ndim = 1 THEN <<ns.a[i]>>
    ELSE [j \in 1..Len(ns.a) |-> ns.a[j][i]]

\* Lines 443-445: parameters[parameter] = node[j] for the first j names.
RECURSIVE BindUncertain(_, _, _)
BindUncertain(names, node, j) ==
    IF j = 0 THEN [x \in {} |-> 0]
    ELSE LET parameters == BindUncertain(names, node, j - 1)
         IN [x \in DOMAIN parameters \cup {names[j]} |->
               IF x = names[j] THEN node[j] ELSE parameters[x]]

\* Every declared parameter takes its nominal value, set or not.
RECURSIVE FillNominalOverriding(_, _)
FillNominalOverriding(parameters, i) ==
    IF i > Len(Parameters) THEN parameters
    ELSE LET parameter == Parameters[i]
         IN FillNominalOverriding(
              [x \in DOMAIN parameters \cup {parameter.name} |->
                 IF x = parameter.name THEN parameter.value ELSE parameters[x]],
              i + 1)

\* Lines 447-449: the declared parameters not yet set take their nominal value.
RECURSIVE FillNominal(_, _)
FillNominal(parameters, i) ==
    IF i > Len(Parameters) THEN parameters
    ELSE LET parameter == Parameters[i]
         IN FillNominal(
              IF parameter.name \notin DOMAIN parameters
              THEN [x \in DOMAIN parameters \cup {parameter.name} |->
                      IF x = parameter.name THEN parameter.value ELSE parameters[x]]
              ELSE parameters,
              i + 1)

\* node[j] raises IndexError when there are more names than rows.
BindingRaises(ns, names) ==
    NumColumns(ns) > 0 /\ Len(names) > Len(Node(ns, 1))

create_model_parameters(ns, names) ==
    [i \in 1..NumColumns(ns) |->
       FillNominal(BindUncertain(names, Node(ns, i), Len(names)), 1)]

\* ------------------------------------------------------ evaluate_nodes, run
\* Lines 543-544: a single name becomes a list of one name.
Names(up) == IF up.isstr THEN <<up.value>> ELSE up.value

\* Parallel.run: the model's output for one parameter set.
ParallelRun(parameters) ==
    [name \in {ModelName} |->
       [values |-> Arr("array", 1, 1,
                       [params |-> parameters, name |-> name, part |-> "values"]),
        time |-> Arr("array", 1, 1,
                     [params |-> parameters, name |-> name, part |-> "time"]),
        interpolation |-> Absent]]

\* Lines 382-392.
BeginEvaluateNodes ==
    /\ pc = "run"
    /\ IF suppress_graphics /\ ~prerequisites
       THEN /\ pc' = "raised"
            /\ error' = Raise("ImportError", "", 0,
                              "Running with suppress_graphics require: xvfbwrapper")
            /\ UNCHANGED poolVars
       ELSE /\ display' = IF suppress_graphics THEN "started" ELSE display
            /\ pool' = "open"
            /\ IF BindingRaises(nodes, Names(uncertain_parameters))
               THEN /\ pc' = "raised"
                    /\ error' = Raise("IndexError", "", 1, "index out of bounds")
                    /\ UNCHANGED <<model_parameters, task, attempts>>
               ELSE /\ pc' = "imap"
                    /\ model_parameters' =
                         create_model_parameters(nodes, Names(uncertain_parameters))
                    /\ task' = [i \in 1..NumColumns(nodes) |-> "queued"]
                    /\ attempts' = [i \in 1..NumColumns(nodes) |-> 0]
                    /\ UNCHANGED error
            /\ UNCHANGED completed
    /\ UNCHANGED <<results, configVars, dataVars, inputVars>>

\* A free worker takes the next task of the pool's queue.
WorkerStart(i) ==
    /\ pc = "imap"
    /\ task[i] = "queued"
    /\ \A j \in 1..(i - 1) : task[j] # "queued"
    /\ Cardinality({j \in DOMAIN task : task[j] = "running"}) < CPUs
    /\ task' = [task EXCEPT ![i] = "running"]
    /\ attempts' = [attempts EXCEPT ![i] = @ + 1]
    /\ UNCHANGED <<results, configVars, dataVars, inputVars, pc, error, display, pool,
                   model_parameters, completed>>

\* self._parallel.run returns in a worker.
WorkerReturn(i) ==
    /\ pc = "imap"
    /\ task[i] = "running"
    /\ task' = [task EXCEPT ![i] = "done"]
    /\ completed' = Append(completed, i)
    /\ UNCHANGED <<results, configVars, dataVars, inputVars, pc, error, display, pool,
                   model_parameters, attempts>>

\* self._parallel.run raises in a worker.
WorkerRaise(i) ==
    /\ pc = "imap"
    /\ task[i] = "running"
    /\ task' = [task EXCEPT ![i] = "failed"]
    /\ completed' = Append(completed, i)
    /\ UNCHANGED <<results, configVars, dataVars, inputVars, pc, error, display, pool,
                   model_parameters, attempts>>

\* pool.imap_unordered: the results in the order the workers ended them.
NextOfImapUnordered ==
    IF Len(completed) > Len(results) THEN completed[Len(results) + 1]
    ELSE Len(results) + 1

\* Line 394: pool.imap gives the results in the order of model_parameters.
NextOfImap == Len(results) + 1

\* Lines 394-398: the loop takes the next result.
ImapNext ==
    /\ pc = "imap"
    /\ NextOfImap \in DOMAIN task
    /\ task[NextOfImap] = "done"
    /\ results' = Append(results, ParallelRun(model_parameters[NextOfImap]))
    /\ UNCHANGED <<configVars, dataVars, inputVars, pc, error, poolVars>>

\* A loop that catches the worker's error and hands the task to the pool again.
ImapRetry ==
    /\ pc = "imap"
    /\ NextOfImap \in DOMAIN task
    /\ task[NextOfImap] = "failed"
    /\ task' = [task EXCEPT ![NextOfImap] = "queued"]
    /\ UNCHANGED <<results, configVars, dataVars, inputVars, pc, error, display, pool,
                   model_parameters, attempts, completed>>

\* Lines 394-398: the next result is an error, which leaves evaluate_nodes and run.
ImapRaise ==
    /\ pc = "imap"
    /\ NextOfImap \in DOMAIN task
    /\ task[NextOfImap] = "failed"
    /\ pc' = "raised"
    /\ error' = Raise("WorkerError", "", NextOfImap, "raised in a worker")
    /\ UNCHANGED <<results, configVars, dataVars, inputVars, poolVars>>

\* Lines 400-405 and 546-548: evaluate_nodes returns results, which run hands to
\* results_to_data.
EndEvaluateNodes ==
    /\ pc = "imap"
    /\ Len(results) = Len(task)
    /\ pool' = "closed"
    /\ display' = IF suppress_graphics THEN "stopped" ELSE display
    /\ pc' = "r2d"
    /\ UNCHANGED <<results, configVars, dataVars, inputVars, error, model_parameters,
                   task, attempts, completed>>

\* Lines 549-551.
EndRun ==
    /\ pc = "returned"
    /\ call = "run"
    /\ data' = [data EXCEPT !.uncertain_parameters = Names(uncertain_parameters)]
    /\ pc' = "done"
    /\ UNCHANGED <<results, configVars, fi, ri, time_interpolate, interpolations, error,
                   inputVars, poolVars>>

\* ------------------------------------------------------------------- Init
NoNodes == [ndim |-> 1, a |-> <<>>]
NoNames == [isstr |-> FALSE, value |-> <<>>]

\* Parallel.run stores the model's output first, then the features'.
KeyOrders == {<<ModelName>>, <<ModelName, FeatureName>>}

\* A Results List: every result has the keys ks; ms and fs give the shapes of
\* the model's and the feature's envelopes.
ResultsList(ks, ma, fa, n, ms, fs) ==
    [k \in 1..n |->
       [name \in Range(ks) |->
          IF name = ModelName
          THEN Envelope(ms[k][1], ms[k][2], ma, k, name)
          ELSE Envelope(fs[k][1], fs[k][2], name \in fa, k, name)]]

\* A call of results_to_data.
InitData ==
    /\ keys \in KeyOrders
    /\ adaptive \in BOOLEAN
    /\ ignore \in BOOLEAN
    /\ featuresAdaptive \in SUBSET (Range(keys) \ {ModelName})
    /\ \E n \in 0..MaxEvals :
         \E ms \in [1..n -> ModelShapes] :
           \E fs \in IF FeatureName \in Range(keys) THEN [1..n -> FeatureShapes]
                     ELSE [1..n -> {<<NanS, NanS>>}] :
             results = ResultsList(keys, adaptive, featuresAdaptive, n, ms, fs)
    /\ data = NoData
    /\ pc = "r2d"
    /\ fi = 0
    /\ ri = 0
    /\ time_interpolate = <<>>
    /\ interpolations = <<>>
    /\ error = NoError
    /\ call = "results_to_data"
    /\ nodes = NoNodes
    /\ uncertain_parameters = NoNames
    /\ suppress_graphics = FALSE
    /\ prerequisites = TRUE
    /\ CPUs = 1
    /\ display = "none"
    /\ pool = "none"
    /\ model_parameters = <<>>
    /\ task = <<>>
    /\ attempts = <<>>
    /\ completed = <<>>

\* The samples of the columns: entry (j, i) of the node matrix is 10 * j + c[i].
NodeSamples == {1, 2}
UncertainInputs == {[isstr |-> TRUE, value |-> "a"],
                    [isstr |-> FALSE, value |-> <<"b", "a">>],
                    [isstr |-> FALSE, value |-> <<"d">>]}

\* A call of run.
InitRun ==
    /\ call = "run"
    /\ \E n \in 0..MaxEvals :
         \E c \in [1..n -> NodeSamples] :
           \/ nodes = [ndim |-> 1, a |-> [i \in 1..n |-> 10 + c[i]]]
           \/ \E k \in 1..MaxParams :
                nodes = [ndim |-> 2,
                         a |-> [j \in 1..k |-> [i \in 1..n |-> 10 * j + c[i]]]]
    /\ uncertain_parameters \in UncertainInputs
    /\ suppress_graphics \in BOOLEAN
    /\ prerequisites \in BOOLEAN
    /\ CPUs \in 1..MaxCPUs
    /\ keys = <<ModelName>>
    /\ adaptive = FALSE
    /\ ignore = FALSE
    /\ featuresAdaptive = {}
    /\ results = <<>>
    /\ data = NoData
    /\ pc = "run"
    /\ fi = 0
    /\ ri = 0
    /\ time_interpolate = <<>>
    /\ interpolations = <<>>
    /\ error = NoError
    /\ display = "none"
    /\ pool = "none"
    /\ model_parameters = <<>>
    /\ task = <<>>
    /\ attempts = <<>>
    /\ completed = <<>>

Init == InitRun \/ InitData

Next ==
    \/ BeginEvaluateNodes
    \/ \E i \in DOMAIN task : WorkerStart(i)
    \/ \E i \in DOMAIN task : WorkerReturn(i)
    \/ \E i \in DOMAIN task : WorkerRaise(i)
    \/ ImapNext
    \/ ImapRaise
    \/ EndEvaluateNodes
    \/ EndRun
    \/ AddFeaturesAndCheck
    \/ StoreFeature
    \/ CollectResult
    \/ Interpolate
    \/ ReturnData

Spec == Init /\ [][Next]_vars

\* ------------------------------------------------------------------ claims
InRun == call = "run"
EvaluateNodesReturned == InRun /\ pool = "closed"
DataReturned == pc \in {"returned", "done"}

\* C1: evaluate_nodes returns one result per column of the node matrix, and
\* entry i is the result of evaluating the parameter set built from column i,
\* in whatever order the workers end their evaluations.
C1_ResultsInColumnOrder ==
    EvaluateNodesReturned =>
        /\ Len(results) = NumColumns(nodes)
        /\ \A i \in 1..Len(results) :
             results[i] = ParallelRun(
                 create_model_parameters(nodes, Names(uncertain_parameters))[i])

\* Two columns with different samples, the second evaluated first.
C1_Witness ==
    /\ EvaluateNodesReturned
    /\ Len(results) >= 2
    /\ completed[1] = 2
    /\ results[1] # results[2]

\* C2: a display that evaluate_nodes started is stopped on every path out of
\* evaluate_nodes, the error paths included.
C2_DisplayReleasedOnExit ==
    (InRun /\ pc \notin {"run", "imap"}) => display # "started"

\* C3: when a worker's evaluation raises, the error leaves evaluate_nodes and
\* run: no task is started twice, evaluate_nodes returns no list, and
\* results_to_data is not called, so no dataset is made.
C3_WorkerErrorAbortsRun ==
    /\ \A i \in DOMAIN attempts : attempts[i] <= 1
    /\ (\E i \in DOMAIN task : task[i] = "failed") =>
          /\ pool # "closed"
          /\ pc \in {"imap", "raised"}
          /\ data = NoData
    /\ error.kind = "WorkerError" =>
          /\ pc = "raised"
          /\ task[error.eval] = "failed"

\* The first evaluations were taken into the list and a later one raised.
C3_Witness ==
    /\ pc = "raised"
    /\ error.kind = "WorkerError"
    /\ Len(results) >= 1

\* A feature's valid evaluations (their values neither np.nan nor None) all
\* have the same length.
ValidLengthsMatch(rs, feature) ==
    \A i, j \in 1..Len(rs) :
        (IsValidValues(rs[i][feature].values) /\ IsValidValues(rs[j][feature].values))
        => lengths(rs[i][feature].values) = lengths(rs[j][feature].values)

\* C4: is_regular is true exactly when the valid evaluations all have the same
\* length, an invalid evaluation being skipped wherever it is in the list.
C4_IsRegularIffValidLengthsMatch ==
    data.made =>
        \A feature \in Range(keys) :
            is_regular(results, feature) = ValidLengthsMatch(results, feature)

IrregularityError(feature) ==
    /\ pc = "raised"
    /\ error.kind = "ValueError"
    /\ error.feature = feature
    /\ error.msg = "The number of points varies between evaluations."

\* C5: for a feature not declared adaptive, results_to_data raises no
\* irregularity error for it when its evaluations all have the same length, and
\* when one differs is_regular is false and results_to_data raises the
\* ValueError that names the feature (or has raised it for an earlier feature).
C5_IrregularityErrorIffLengthsDiffer ==
    data.made =>
        \A feature \in Range(keys) \ ({ModelName} \cup featuresAdaptive) :
            IF ValidLengthsMatch(results, feature)
            THEN ~IrregularityError(feature)
            ELSE /\ ~is_regular(results, feature)
                 /\ \/ IrregularityError(feature)
                    \/ IrregularityError(ModelName)

Interpolated(feature) ==
    /\ data.made
    /\ feature \in DOMAIN data.feat
    /\ data.feat[feature].evaluations.kind = "ndarray"

\* The collected lists are those of the feature stored last.
JustInterpolated ==
    /\ pc \in {"store", "returned", "done"}
    /\ fi > 1
    /\ Interpolated(keys[fi - 1])

\* C6: apply_interpolation takes as time base the first of the collected time
\* arrays with the most points, and gives one row per interpolation object: that
\* object evaluated at the time base, with as many points as the time base.
C6_InterpolatesAtLongestTime ==
    JustInterpolated =>
        LET stored == data.feat[keys[fi - 1]]
            rows == stored.evaluations.items
        IN /\ \E k \in 1..Len(time_interpolate) :
                /\ stored.time = time_interpolate[k]
                /\ \A j \in 1..Len(time_interpolate) :
                      time_interpolate[j].n <= time_interpolate[k].n
                /\ \A j \in 1..(k - 1) :
                      time_interpolate[j].n < time_interpolate[k].n
           /\ Len(rows) = Len(interpolations)
           /\ \A j \in 1..Len(rows) :
                /\ rows[j] = Evaluate(interpolations[j], stored.time)
                /\ rows[j].n = stored.time.n

\* Time arrays of different lengths, the longest not the first, and a tie.
C6_Witness ==
    /\ JustInterpolated
    /\ Len(time_interpolate) >= 2
    /\ time_interpolate[1].n < time_interpolate[2].n
    /\ Len(data.feat[keys[fi - 1]].evaluations.items) >= 2

Has2D(feature) ==
    \E k \in 1..Len(results) : results[k][feature].values.nd >= 2

\* C7: when an adaptive feature has 2-D values in some evaluation,
\* results_to_data returns no dataset, and the error it raises for the feature
\* is the NotImplementedError.
C7_TwoDimAdaptiveRaises ==
    \A feature \in Range(keys) \cap featuresAdaptive :
        (Len(results) > 0 /\ Has2D(feature)) =>
            /\ ~DataReturned
            /\ (pc = "raised" /\ error.feature = feature)
                  => error.kind = "NotImplementedError"

\* The collection loop of keys[fi] is running or has raised.
Collecting ==
    \/ pc = "collect"
    \/ pc = "raised" /\ error.eval > 0 /\ error.kind # "WorkerError"
                     /\ error.kind # "IndexError"

\* C8: in the collection loop, an evaluation of a feature whose time is only
\* np.nan while the model's time is valid has the model's time collected, and
\* raises no time error; for the model's own output a time that is only np.nan
\* raises the ValueError.
C8_FallbackToModelTime ==
    Collecting =>
        LET feature == keys[fi]
            mtime(k) == results[k][ModelName].time
        IN IF feature # ModelName
           THEN /\ pc = "collect" => Len(time_interpolate) = ri - 1
                /\ \A k \in 1..Len(time_interpolate) :
                      (TimeTest(results[k][feature].time) = "nan"
                          /\ TimeTest(mtime(k)) = "valid")
                      => time_interpolate[k] = mtime(k)
                /\ (pc = "raised" /\ error.kind = "ValueError")
                      => TimeTest(mtime(error.eval)) # "valid"
           ELSE /\ pc = "collect" =>
                      \A k \in 1..(ri - 1) : TimeTest(mtime(k)) # "nan"
                /\ (pc = "raised" /\ TimeTest(mtime(error.eval)) = "nan")
                      => /\ error.kind = "ValueError"
                         /\ error.msg = "model has no valid time values to use in the interpolation"

\* A feature's evaluation without a time took the model's.
C8_Witness ==
    /\ pc = "collect"
    /\ keys[fi] # ModelName
    /\ ri > 1
    /\ TimeTest(results[ri - 1][keys[fi]].time) = "nan"
    /\ time_interpolate[ri - 1] = results[ri - 1][ModelName].time

\* Entry (j, i) of nodes: nodes[j][i], or nodes[i] of a 1-D nodes.
NodeEntry(ns, j, i) == IF ns.ndim = 1 THEN ns.a[i] ELSE ns.a[j][i]
DeclaredNames == {Parameters[i].name : i \in 1..Len(Parameters)}

\* C9: create_model_parameters gives one parameter set per column, in column
\* order; in the set of column i the uncertain name j has the value
\* nodes[j][i], every other declared parameter its nominal value, and the keys
\* are the uncertain and the declared names.
C9_ParameterSetsOverlayNodes ==
    (InRun /\ pool # "none" /\ ~BindingRaises(nodes, Names(uncertain_parameters))) =>
        LET names == Names(uncertain_parameters)
        IN /\ Len(model_parameters) = NumColumns(nodes)
           /\ \A i \in 1..Len(model_parameters) :
                /\ DOMAIN model_parameters[i] = Range(names) \cup DeclaredNames
                /\ \A j \in 1..Len(names) :
                      model_parameters[i][names[j]] = NodeEntry(nodes, j, i)
                /\ \A p \in Range(Parameters) :
                      p.name \notin Range(names)
                      => model_parameters[i][p.name] = p.value

\* Two columns, two uncertain names in another order than the declared one.
C9_Witness ==
    /\ InRun
    /\ nodes.ndim = 2
    /\ Len(model_parameters) >= 2
    /\ Len(Names(uncertain_parameters)) = 2
    /\ model_parameters[1] # model_parameters[2]
    /\ model_parameters[1]["c"] = 5

\* C10: results_to_data leaves the Results List as it was, on the paths that
\* return and on the paths that raise.
C10_ResultsUnchanged ==
    [][pc \notin {"run", "imap"} => results' = results]_vars

\* A dataset was returned for two evaluations, interpolated for a feature.
C10_Witness ==
    /\ pc = "returned"
    /\ Len(results) >= 2
    /\ \E feature \in Range(keys) : Interpolated(feature)

\* The position of a feature in the storing loop.
KeyIndex(feature) == CHOOSE i \in 1..Len(keys) : keys[i] = feature

\* The storing loop has gone through the feature without raising.
Stored(feature) ==
    /\ data.made
    /\ pc \in {"store", "collect", "raised", "returned", "done"}
    /\ KeyIndex(feature) < fi

\* Lines 239-240, 312 and 320: the feature goes to the last branch of the
\* storing loop, which stores a time shared by the evaluations.
SharedTimeBranch(feature) ==
    /\ feature \notin featuresAdaptive
    /\ ~(feature = ModelName /\ adaptive /\ ~ignore)
    /\ ~(feature = ModelName /\ ignore)

\* C11: a feature not declared adaptive that results_to_data has stored has as
\* time the time of the first evaluation, np.nan included, and as evaluations
\* the list of the values of every evaluation, in the order of the Results
\* List, one entry per evaluation; no interpolation object is needed for it.
C11_RegularStoredAsIs ==
    \A feature \in Range(keys) :
        (SharedTimeBranch(feature) /\ Stored(feature)) =>
            LET stored == data.feat[feature]
            IN /\ stored.time = results[1][feature].time
               /\ stored.evaluations.kind = "list"
               /\ Len(stored.evaluations.items) = Len(results)
               /\ \A k \in 1..Len(results) :
                     /\ stored.evaluations.items[k] = results[k][feature].values
                     /\ results[k][feature].interpolation = Absent

\* A number and then np.nan, the first time np.nan, returned in a dataset.
C11_Witness ==
    /\ pc = "returned"
    /\ FeatureName \in Range(keys)
    /\ SharedTimeBranch(FeatureName)
    /\ Len(results) = 2
    /\ results[1][FeatureName].values.kind = "num"
    /\ results[1][FeatureName].time.kind = "nan"
    /\ results[2][FeatureName].values.kind = "nan"
    /\ data.feat[FeatureName].evaluations.items[1].kind = "num"

\* C12: with model.ignore set, whether model.adaptive is set or not, the
\* model's output raises no irregularity error and goes through no collection
\* loop, and once stored its time and its evaluations are two lists with the
\* time and the values of every evaluation, np.nan included, in the order of
\* the Results List, one entry per evaluation.
C12_IgnoredModelStoredRaw ==
    ignore =>
        /\ ~IrregularityError(ModelName)
        /\ Collecting => keys[fi] # ModelName
        /\ Stored(ModelName) =>
              LET stored == data.feat[ModelName]
              IN /\ stored.time.kind = "list"
                 /\ stored.evaluations.kind = "list"
                 /\ Len(stored.time.items) = Len(results)
                 /\ Len(stored.evaluations.items) = Len(results)
                 /\ \A k \in 1..Len(results) :
                       /\ stored.time.items[k] = results[k][ModelName].time
                       /\ stored.evaluations.items[k] = results[k][ModelName].values

\* An ignored adaptive model whose two evaluations differ in length, returned.
C12_Witness ==
    /\ ignore
    /\ adaptive
    /\ pc = "returned"
    /\ Len(results) = 2
    /\ results[1][ModelName].values.kind = "array"
    /\ results[2][ModelName].values.kind = "array"
    /\ results[1][ModelName].values.n # results[2][ModelName].values.n
    /\ data.feat[ModelName].time.kind = "list"

\* The test of the time of evaluation k of the feature raises.
OwnTimeRaises(feature, k) == TimeTest(results[k][feature].time) = "raises"

\* C13: in the collection loop of a derived feature, an evaluation whose own
\* time makes the validity test raise ends results_to_data with that TypeError,
\* carrying the message that the time is most likely not regular, whether the
\* model's time is valid or not: nothing is collected for the evaluation, and
\* the loop never goes past such an evaluation.
C13_MalformedTimeRaises ==
    (Collecting /\ keys[fi] # ModelName) =>
        LET feature == keys[fi]
        IN /\ \A k \in 1..(ri - 1) : ~OwnTimeRaises(feature, k)
           /\ (pc = "raised" /\ OwnTimeRaises(feature, error.eval)) =>
                 /\ error.kind = "TypeError"
                 /\ error.msg = "the time of is most likely not regular, unable to interpolate"
                 /\ Len(time_interpolate) = error.eval - 1
                 /\ Len(interpolations) = error.eval - 1

\* The second evaluation of a feature has a ragged time and a model time that
\* is valid, and results_to_data has raised on it.
C13_Witness ==
    /\ pc = "raised"
    /\ Collecting
    /\ keys[fi] = FeatureName
    /\ error.eval = 2
    /\ error.kind = "TypeError"
    /\ OwnTimeRaises(FeatureName, 2)
    /\ TimeTest(results[2][ModelName].time) = "valid"

\* C13 as the specification states it: an evaluation of a derived feature whose
\* own time makes the validity test raise, while the model's time is valid,
\* has the model's time collected and does not end results_to_data.
C13_FallbackOnMalformedTime ==
    (Collecting /\ keys[fi] # ModelName) =>
        LET feature == keys[fi]
            mtime(k) == results[k][ModelName].time
        IN /\ \A k \in 1..(ri - 1) :
                (OwnTimeRaises(feature, k) /\ TimeTest(mtime(k)) = "valid")
                => (k <= Len(time_interpolate) /\ time_interpolate[k] = mtime(k))
           /\ pc = "raised" =>
                ~(OwnTimeRaises(feature, error.eval)
                    /\ TimeTest(mtime(error.eval)) = "valid"
                    /\ error.kind \in {"TypeError", "ValueError"})

\* The storing loop is at the feature, about to take its branch.
AtFeature(feature) == pc = "store" /\ fi <= Len(keys) /\ keys[fi] = feature

\* C14: whatever model.adaptive, model.ignore and features.adaptive are, a
\* feature or the model's output that the storing loop takes to its last
\* branch, the one storing the first evaluation's time, is one the check loop
\* called is_regular on, with the answer true; when is_regular is false for a
\* feature the check loop tests, results_to_data has raised the ValueError
\* before storing anything.
C14_SharedTimeOnlyAfterRegularCheck ==
    \A feature \in Range(keys) :
        /\ (SharedTimeBranch(feature) /\ (AtFeature(feature) \/ Stored(feature)))
              => /\ NeedsRegularityCheck(feature)
                 /\ is_regular(results, feature)
        /\ (data.made /\ NeedsRegularityCheck(feature) /\ ~is_regular(results, feature))
              => /\ pc = "raised"
                 /\ error.kind = "ValueError"
                 /\ error.msg = "The number of points varies between evaluations."
                 /\ \A f \in Range(keys) : data.feat[f].time = Unset

\* An adaptive model and a feature that is not adaptive: the feature was
\* stored with the first evaluation's time after the model was interpolated.
C14_Witness ==
    /\ pc = "returned"
    /\ adaptive
    /\ ~ignore
    /\ FeatureName \in Range(keys)
    /\ SharedTimeBranch(FeatureName)
    /\ Len(results) = 2
    /\ Interpolated(ModelName)
    /\ data.feat[FeatureName].time = results[1][FeatureName].time
    /\ results[2][FeatureName].values.kind = "array"

\* The collection loop of keys[fi] has gone through every result.
CollectionFinished == pc = "collect" /\ ri > Len(results)

\* C15: when the collection loop of an adaptive 1-D feature, the model's output
\* included, ends without an error, the collected times and the collected
\* interpolation objects both have one entry per evaluation, entry k being a
\* time (the feature's own or the model's) and the interpolation object of
\* evaluation k.
C15_OneTimePerEvaluation ==
    CollectionFinished =>
        LET feature == keys[fi]
        IN /\ Len(time_interpolate) = Len(results)
           /\ Len(interpolations) = Len(results)
           /\ \A k \in 1..Len(results) :
                 /\ k <= Len(time_interpolate) =>
                       time_interpolate[k] \in {results[k][feature].time,
                                                results[k][ModelName].time}
                 /\ k <= Len(interpolations) =>
                       interpolations[k] = results[k][feature].interpolation
====
